---- MODULE Spec2Model ----
(***************************************************************************)
(* Dinner groups: the restaurant service (join / leave a dinner group,     *)
(* cached restaurant details), the places provider and the page loader.    *)
(* Every awaited database or network call is one atomic step.              *)
(***************************************************************************)
EXTENDS Integers, Sequences, FiniteSets, TLC

\* ---------------------------------------------------------------- bounds
NumUsers == 2
NumJoinTargets == 2
NumSlots == 2
MaxCalls == 3
MaxPlaces == 3
CatalogSize == 34
NumSeeds == 1
MaxSmallWorld == 1
MaxTicks == 2
MaxChangingWorld == 2
MaxRequests == 3

Users == 1..NumUsers
JoinTargets == 1..NumJoinTargets
Slots == 1..NumSlots

Null == 0

\* Row ids are opaque (cuid): a new row takes any id that no row and no local
\* of a running call holds. Ids are drawn per restaurant / per user.
IdStride == 10
GroupIdsOf(r) == {r * IdStride + v : v \in 1..(NumSlots + 1)}
AttendeeIdsOf(u) == {u * IdStride + v : v \in 1..(2 * NumSlots + 1)}
GroupIds == UNION {GroupIdsOf(r) : r \in JoinTargets}
AttendeeIds == UNION {AttendeeIdsOf(u) : u \in Users}

VARIABLES
    dinnerGroups,   \* DinnerGroup table: set of [id, restaurantId]
    attendees,      \* Attendee table: set of [id, userId, dinnerGroupId]
    onDelete,       \* referential action of Attendee.dinnerGroup
    calls,          \* per request slot: the running service call and its locals
    lastCall,       \* the call completed most recently (history)
    started,        \* number of overlapping requests served so far
    provider,       \* the running getNearbyRestaurants call
    world,          \* what the places provider currently knows around the hotel
    now,            \* Date.now(), in milliseconds
    cache,          \* lruCache: set of [key, createdTime, ttl, value]
    provLog,        \* per cache key, the latest successful provider fetch and the
                    \* size of the Attendee table at that moment (history)
    svc,            \* the latest getAllRestaurantDetails call and its result
    page,           \* the latest loader call and its result
    served          \* number of direct service requests so far

dbVars == <<dinnerGroups, attendees, onDelete, calls, lastCall, started>>
providerVars == <<provider>>
svcVars == <<world, now, cache, provLog, svc, page, served>>
nonDbVars == <<providerVars, svcVars>>
nonProviderVars == <<dbVars, svcVars>>
nonSvcVars == <<dbVars, providerVars>>

IdleCall ==
    [op |-> "idle", pc |-> "idle", intent |-> "none", userId |-> Null, restaurantId |-> Null,
     attendee |-> Null, attGroupId |-> Null, attRestaurantId |-> Null,
     dinnerGroup |-> Null, result |-> "none", value |-> Null, threwAt |-> "none",
     observed |-> FALSE,
     startGroups |-> {}, startAttendees |-> {}]

\* ------------------------------------------------------ table helpers
AttendeesOfUser(u) == {a \in attendees : a.userId = u}
AttendeesOfGroup(g) == {a \in attendees : a.dinnerGroupId = g}
GroupsOfRestaurant(r) == {g \in dinnerGroups : g.restaurantId = r}
GroupById(g) == {x \in dinnerGroups : x.id = g}

\* ids held in the locals of running calls stay reserved, so that a stale
\* reference never aliases a newer row
HeldGroupIds == UNION {{calls[s].attGroupId, calls[s].dinnerGroup} : s \in Slots}
HeldAttendeeIds == {calls[s].attendee : s \in Slots}

Min(S) == CHOOSE x \in S : \A y \in S : x <= y

FreshGroupId(r) == Min(GroupIdsOf(r) \ ({g.id : g \in dinnerGroups} \cup HeldGroupIds))
FreshAttendeeId(u) == Min(AttendeeIdsOf(u) \ ({a.id : a \in attendees} \cup HeldAttendeeIds))

AllIdle == \A s \in Slots : calls[s].op = "idle"

DbInit ==
    /\ dinnerGroups = {}
    /\ attendees = {}
    /\ onDelete \in {"Restrict", "Cascade"}
    /\ calls = [s \in Slots |-> IdleCall]
    /\ lastCall = [op |-> "none", userId |-> Null, value |-> Null,
                   groups |-> {}, attendees |-> {}]
    /\ started = 0

\* ------------------------------------------------------ service calls
\* the locals of a finished function are gone; a request that nobody observes
\* afterwards frees its slot at once
Settle(c, result, value) ==
    IF c.observed
    THEN [c EXCEPT !.pc = "done", !.result = result, !.value = value,
                   !.attendee = Null, !.attGroupId = Null, !.attRestaurantId = Null,
                   !.dinnerGroup = Null]
    ELSE IdleCall

\* where a call goes once its leaveDinnerGroup part has returned
AfterLeave(c, restaurantId) ==
    IF c.op = "join"
    THEN [c EXCEPT !.pc = "findGroup", !.attendee = Null, !.attGroupId = Null,
                   !.attRestaurantId = Null]
    ELSE Settle(c, "ok", restaurantId)

\* a Prisma call rejects and the rejection leaves the function; threwAt keeps
\* the step (history)
Throw(c) == Settle([c EXCEPT !.threwAt = c.pc], "error", Null)

\* faulty variant: a missing attendance is an error
LeaveNoAttendance_Throws(c) == Throw(c)

\* leaveDinnerGroup: if (!attendee) return null
LeaveNoAttendance(c) == AfterLeave(c, Null)

\* Object.fromEntries(formData): the intent field is missing ("undefined") or
\* any string, the restaurantId field is missing (Null) or names a restaurant;
\* only a join form carries a restaurantId
Intents == {"undefined", "join", "leave", "other"}
Forms ==
    {f \in [intent : Intents, restaurantId : JoinTargets \cup {Null}] :
        f.intent # "join" => f.restaurantId = Null}

\* faulty variant: restaurantId is optional
ActionSchemaSuccess_IdOptional(form) ==
    form.intent = "join" \/ form.intent = "leave"

\* ActionSchema.safeParse(...).success: a discriminated union on intent of
\* {intent: 'join', restaurantId: string} and {intent: 'leave'}
ActionSchemaSuccess(form) ==
    \/ form.intent = "join" /\ form.restaurantId # Null
    \/ form.intent = "leave"

\* action(): a form that does not parse is answered with
\*   {status: 'error', message: 'Invalid form data'};
\* intent=join -> joinDinnerGroup, intent=leave -> leaveDinnerGroup, and both
\* begin with leaveDinnerGroup's
\*   prisma.attendee.findFirst({where: {userId}, include: {dinnerGroup: true}})
\* (a rejected form touches no table; among overlapping requests only the
\* ones that reach the database are followed)
StartCall(s, exclusive) ==
    /\ calls[s].op = "idle"
    /\ \A t \in Slots : t < s => calls[t].op # "idle"
    /\ exclusive => AllIdle
    /\ ~exclusive => started < MaxCalls
    /\ started' = IF exclusive THEN started ELSE started + 1
    /\ \E u \in Users, form \in Forms :
          LET c == [IdleCall EXCEPT !.op = form.intent, !.intent = form.intent,
                                    !.userId = u,
                                    !.restaurantId = form.restaurantId,
                                    !.observed = exclusive,
                                    !.startGroups = IF exclusive THEN dinnerGroups ELSE {},
                                    !.startAttendees = IF exclusive THEN attendees ELSE {}]
          IN
          /\ ~exclusive => ActionSchemaSuccess(form)
          /\ IF ~ActionSchemaSuccess(form)
             THEN calls' = [calls EXCEPT ![s] =
                     Settle([c EXCEPT !.op = "invalid"], "Invalid form data", Null)]
             ELSE IF AttendeesOfUser(u) = {}
             THEN calls' = [calls EXCEPT ![s] = LeaveNoAttendance(c)]
             ELSE \E a \in AttendeesOfUser(u) :
                    \E g \in GroupById(a.dinnerGroupId) :
                       calls' = [calls EXCEPT ![s] =
                          [c EXCEPT !.pc = "deleteAttendee", !.attendee = a.id,
                                    !.attGroupId = a.dinnerGroupId,
                                    !.attRestaurantId = g.restaurantId]]
    /\ UNCHANGED <<dinnerGroups, attendees, onDelete, lastCall>>
    /\ UNCHANGED nonDbVars

\* faulty variant: the attendance row is not deleted
LeaveDeleteAttendee_KeepsRow(s) ==
    LET c == calls[s] IN
    /\ c.pc = "deleteAttendee"
    /\ attendees' = attendees
    /\ calls' = [calls EXCEPT ![s] = [c EXCEPT !.pc = "countRemaining"]]
    /\ UNCHANGED <<dinnerGroups, onDelete, lastCall, started>>
    /\ UNCHANGED nonDbVars

\* leaveDinnerGroup: prisma.attendee.delete({where: {id}}); throws when the row is gone
LeaveDeleteAttendee(s) ==
    LET c == calls[s] IN
    /\ c.pc = "deleteAttendee"
    /\ IF \E a \in attendees : a.id = c.attendee
       THEN /\ attendees' = {a \in attendees : a.id # c.attendee}
            /\ calls' = [calls EXCEPT ![s] = [c EXCEPT !.pc = "countRemaining"]]
       ELSE /\ attendees' = attendees
            /\ calls' = [calls EXCEPT ![s] = Throw(c)]
    /\ UNCHANGED <<dinnerGroups, onDelete, lastCall, started>>
    /\ UNCHANGED nonDbVars

\* faulty variant: the group is never found empty
LeaveCountRemaining_NeverEmpty(s) ==
    LET c == calls[s] IN
    /\ c.pc = "countRemaining"
    /\ calls' = [calls EXCEPT ![s] = AfterLeave(c, c.attRestaurantId)]
    /\ UNCHANGED <<dinnerGroups, attendees, onDelete, lastCall, started>>
    /\ UNCHANGED nonDbVars

\* leaveDinnerGroup: prisma.attendee.count({where: {dinnerGroupId}})
LeaveCountRemaining(s) ==
    LET c == calls[s]
        n == Cardinality(AttendeesOfGroup(c.attGroupId)) IN
    /\ c.pc = "countRemaining"
    /\ calls' = [calls EXCEPT ![s] =
          IF n = 0
          THEN [c EXCEPT !.pc = "deleteGroup"]
          ELSE AfterLeave(c, c.attRestaurantId)]
    /\ UNCHANGED <<dinnerGroups, attendees, onDelete, lastCall, started>>
    /\ UNCHANGED nonDbVars

\* leaveDinnerGroup: prisma.dinnerGroup.delete({where: {id}}); throws when the
\* group is gone, or when attendees still reference it and the relation restricts
LeaveDeleteGroup(s) ==
    LET c == calls[s] IN
    /\ c.pc = "deleteGroup"
    /\ IF GroupById(c.attGroupId) = {}
          \/ (AttendeesOfGroup(c.attGroupId) # {} /\ onDelete = "Restrict")
       THEN /\ UNCHANGED <<dinnerGroups, attendees>>
            /\ calls' = [calls EXCEPT ![s] = Throw(c)]
       ELSE /\ dinnerGroups' = {g \in dinnerGroups : g.id # c.attGroupId}
            /\ attendees' = {a \in attendees : a.dinnerGroupId # c.attGroupId}
            /\ calls' = [calls EXCEPT ![s] = AfterLeave(c, c.attRestaurantId)]
    /\ UNCHANGED <<onDelete, lastCall, started>>
    /\ UNCHANGED nonDbVars

\* faulty variant: the lookup ignores restaurantId
JoinFindGroup_AnyGroup(s) ==
    LET c == calls[s] IN
    /\ c.pc = "findGroup"
    /\ IF dinnerGroups = {}
       THEN calls' = [calls EXCEPT ![s] = [c EXCEPT !.pc = "createGroup"]]
       ELSE \E g \in dinnerGroups :
              calls' = [calls EXCEPT ![s] =
                 [c EXCEPT !.pc = "createAttendee", !.dinnerGroup = g.id]]
    /\ UNCHANGED <<dinnerGroups, attendees, onDelete, lastCall, started>>
    /\ UNCHANGED nonDbVars

\* joinDinnerGroup: prisma.dinnerGroup.findUnique({where: {restaurantId}})
JoinFindGroup(s) ==
    LET c == calls[s] IN
    /\ c.pc = "findGroup"
    /\ IF GroupsOfRestaurant(c.restaurantId) = {}
       THEN calls' = [calls EXCEPT ![s] = [c EXCEPT !.pc = "createGroup"]]
       ELSE \E g \in GroupsOfRestaurant(c.restaurantId) :
              calls' = [calls EXCEPT ![s] =
                 [c EXCEPT !.pc = "createAttendee", !.dinnerGroup = g.id]]
    /\ UNCHANGED <<dinnerGroups, attendees, onDelete, lastCall, started>>
    /\ UNCHANGED nonDbVars

\* faulty variant: restaurantId is not unique
RestaurantIdTaken_Never(r) == FALSE

\* DinnerGroup.restaurantId is a unique field (it is the findUnique key)
RestaurantIdTaken(r) == GroupsOfRestaurant(r) # {}

\* joinDinnerGroup: prisma.dinnerGroup.create({data: {restaurantId}})
JoinCreateGroup(s) ==
    LET c == calls[s] IN
    /\ c.pc = "createGroup"
    /\ IF RestaurantIdTaken(c.restaurantId)
       THEN /\ dinnerGroups' = dinnerGroups
            /\ calls' = [calls EXCEPT ![s] = Throw(c)]
       ELSE /\ dinnerGroups' = dinnerGroups \cup
                   {[id |-> FreshGroupId(c.restaurantId), restaurantId |-> c.restaurantId]}
            /\ calls' = [calls EXCEPT ![s] =
                   [c EXCEPT !.pc = "createAttendee", !.dinnerGroup = FreshGroupId(c.restaurantId)]]
    /\ UNCHANGED <<attendees, onDelete, lastCall, started>>
    /\ UNCHANGED nonDbVars

\* faulty variant: the insert replaces the user's other rows
JoinCreateAttendee_ReplacesRows(s) ==
    LET c == calls[s] IN
    /\ c.pc = "createAttendee"
    /\ IF GroupById(c.dinnerGroup) = {}
       THEN /\ attendees' = attendees
            /\ calls' = [calls EXCEPT ![s] = Throw(c)]
       ELSE /\ attendees' = (attendees \ AttendeesOfUser(c.userId)) \cup
                   {[id |-> FreshAttendeeId(c.userId), userId |-> c.userId,
                     dinnerGroupId |-> c.dinnerGroup]}
            /\ calls' = [calls EXCEPT ![s] =
                   Settle(c, "ok", c.dinnerGroup)]
    /\ UNCHANGED <<dinnerGroups, onDelete, lastCall, started>>
    /\ UNCHANGED nonDbVars

\* joinDinnerGroup: prisma.attendee.create({data: {userId, dinnerGroupId}});
\* throws when the referenced group no longer exists
JoinCreateAttendee(s) ==
    LET c == calls[s] IN
    /\ c.pc = "createAttendee"
    /\ IF GroupById(c.dinnerGroup) = {}
       THEN /\ attendees' = attendees
            /\ calls' = [calls EXCEPT ![s] = Throw(c)]
       ELSE /\ attendees' = attendees \cup
                   {[id |-> FreshAttendeeId(c.userId), userId |-> c.userId,
                     dinnerGroupId |-> c.dinnerGroup]}
            /\ calls' = [calls EXCEPT ![s] =
                   Settle(c, "ok", c.dinnerGroup)]
    /\ UNCHANGED <<dinnerGroups, onDelete, lastCall, started>>
    /\ UNCHANGED nonDbVars

\* the call's promise settles and the request ends
FinishCall(s) ==
    LET c == calls[s] IN
    /\ c.pc = "done"
    /\ calls' = [calls EXCEPT ![s] = IdleCall]
    /\ lastCall' = [op |-> c.op, userId |-> c.userId, value |-> c.value,
                    groups |-> dinnerGroups, attendees |-> attendees]
    /\ UNCHANGED <<dinnerGroups, attendees, onDelete, started>>
    /\ UNCHANGED nonDbVars

vars == <<dbVars, providerVars, svcVars>>

\* ------------------------------------------------------ places provider
Places == 1..MaxPlaces

\* status field of a Places API response
NearbyStatuses == {"OK", "ZERO_RESULTS", "OVER_QUERY_LIMIT", "REQUEST_DENIED", "INVALID_REQUEST"}

\* a nearby response carries no results field, or a list of distinct places
RECURSIVE PlaceLists(_)
PlaceLists(n) ==
    IF n = 0 THEN {<< >>}
    ELSE LET shorter == PlaceLists(n - 1) IN
         shorter \cup {Append(l, p) : l \in {x \in shorter : Len(x) = n - 1},
                                      p \in Places} 

DistinctPlaceLists ==
    {l \in PlaceLists(MaxPlaces) : \A i, j \in 1..Len(l) : i # j => l[i] # l[j]}

\* how one details call ends: status OK with a result, a non-OK status, status
\* OK without result, or fetch()/json() rejecting
DetailsOutcomes == {"ok", "bad_status", "no_result", "rejected"}

IdleProvider ==
    [pc |-> "idle", status |-> "none", hasResults |-> FALSE, results |-> << >>,
     details |-> << >>, detailsIssued |-> 0, outcome |-> "none", list |-> << >>]

ProviderInit == provider = IdleProvider

\* getNearbyRestaurants: fetch(nearbySearchURL)
ProviderStart ==
    /\ provider.pc = "idle"
    /\ provider' = [IdleProvider EXCEPT !.pc = "nearby"]
    /\ UNCHANGED nonProviderVars

\* faulty variant: only OK is accepted
NearbyStatusIsError_ZeroResultsToo(status) == status # "OK"

\* if (nearbyData.status !== 'OK' && nearbyData.status !== 'ZERO_RESULTS') throw
NearbyStatusIsError(status) == status # "OK" /\ status # "ZERO_RESULTS"

\* if (nearbyData.status === 'ZERO_RESULTS' || !nearbyData.results?.length) return []
NearbyIsEmpty(status, hasResults, results) ==
    status = "ZERO_RESULTS" \/ ~hasResults \/ Len(results) = 0

\* the nearby response arrives; on OK with results every details call is
\* issued before the function awaits any of them
NearbyResponds ==
    /\ provider.pc = "nearby"
    /\ \E status \in NearbyStatuses, hasResults \in BOOLEAN, results \in DistinctPlaceLists :
          /\ ~hasResults => results = << >>
          /\ LET p == [provider EXCEPT !.status = status, !.hasResults = hasResults,
                                       !.results = results]
             IN
             provider' =
                IF NearbyStatusIsError(status)
                THEN [p EXCEPT !.pc = "settled", !.outcome = "threw"]
                ELSE IF NearbyIsEmpty(status, hasResults, results)
                THEN [p EXCEPT !.pc = "settled", !.outcome = "returned", !.list = << >>]
                ELSE [p EXCEPT !.pc = "details",
                               !.details = [i \in 1..Len(results) |-> "pending"],
                               !.detailsIssued = Len(results)]
    /\ UNCHANGED nonProviderVars

\* the nearby fetch() itself rejects
NearbyRejects ==
    /\ provider.pc = "nearby"
    /\ provider' = [provider EXCEPT !.pc = "settled", !.outcome = "threw"]
    /\ UNCHANGED nonProviderVars

\* the async mapper has no try/catch: a rejecting fetch()/json() rejects the
\* mapper's promise; a non-OK status or a missing result makes it return null
DetailsCallRejects(outcome) == outcome = "rejected"

\* one details call ends; Promise.all rejects on the first rejection and
\* leaves the other calls running
DetailsResponds(i) ==
    /\ provider.pc \in {"details", "settled"}
    /\ i \in 1..Len(provider.details)
    /\ provider.details[i] = "pending"
    /\ \E o \in DetailsOutcomes :
          provider' =
             IF DetailsCallRejects(o) /\ provider.outcome = "none"
             THEN [provider EXCEPT !.details[i] = o, !.pc = "settled", !.outcome = "threw"]
             ELSE [provider EXCEPT !.details[i] = o]
    /\ UNCHANGED nonProviderVars

\* restaurantsWithDetails.filter(Boolean)
RECURSIVE FilterBoolean(_, _)
FilterBoolean(results, details) ==
    IF Len(results) = 0 THEN << >>
    ELSE IF details[1] = "ok"
         THEN <<results[1]>> \o FilterBoolean(Tail(results), Tail(details))
         ELSE FilterBoolean(Tail(results), Tail(details))

\* await Promise.all(placeDetailsPromises) resolves once every mapper has
\* fulfilled
ProviderReturn ==
    /\ provider.pc = "details"
    /\ \A i \in 1..Len(provider.details) : provider.details[i] \notin {"pending", "rejected"}
    /\ provider' = [provider EXCEPT !.pc = "settled", !.outcome = "returned",
                                    !.list = FilterBoolean(provider.results, provider.details)]
    /\ UNCHANGED nonProviderVars

NextProvider ==
    \/ ProviderStart
    \/ NearbyResponds
    \/ NearbyRejects
    \/ \E i \in Places : DetailsResponds(i)
    \/ ProviderReturn

\* ------------------------------------------------------ restaurant service
\* Numbers are fixed-point: coordinates in 1e-5 degrees, ratings in tenths,
\* distances in hundredths of a mile (calculateDistance keeps two decimals).
NoParam == -1

\* requireUserId(request): the signed-in user; the other users are fellow diners
Requester == 1

RESTAURANT_CACHE_TTL == 1000 * 60 * 60 * 24
TickMs == 1000 * 60 * 60 * 16

HILTON_LAT == 4075960
HILTON_LNG == -11188670
NearLats == {HILTON_LAT, HILTON_LAT + 2}
Radii == {3200, 6400}

\* what the provider holds about restaurant i in world w: a fixed varied pattern
RatingCycle == <<45, 40, 45, 0, 50, 38, 45, 30>>
CatalogRow(i, w) ==
    [id |-> i,
     rating |-> RatingCycle[((i + w.seed) % 8) + 1],
     priceLevel |-> (i * w.seed) % 5,
     distance |-> IF i = 9 THEN 250
                  ELSE IF i = 17 THEN 150
                  ELSE (((i * 7 + w.seed * 3) % 20) * 5) + 5]

WorldSizes == (0..MaxSmallWorld) \cup {CatalogSize}
Worlds == [seed : 1..NumSeeds, size : WorldSizes]
ChangingWorlds == [seed : {1}, size : 1..MaxChangingWorld]

RECURSIVE SelectRows(_, _, _)
SelectRows(i, w, radius) ==
    IF i > w.size THEN << >>
    ELSE IF CatalogRow(i, w).distance * 16 <= radius
         THEN <<CatalogRow(i, w)>> \o SelectRows(i + 1, w, radius)
         ELSE SelectRows(i + 1, w, radius)

\* fetchAndUpsertRestaurants: the provider's restaurants within the radius
\* around the hotel (1600 m to the mile, as the loader converts)
FetchAndUpsertRestaurants(w, radius) == SelectRows(1, w, radius)

\* calculateDistance(lat, lng, restaurant.lat, restaurant.lng): the row's
\* location is kept as its distance from the hotel, and every query centre
\* used here lies within a few metres of the hotel
CalculateDistance(lat, lng, row) == row.distance

\* faulty variant: the radius is left out of the key
CacheKey_IgnoresRadius(lat, lng, radius) == <<"restaurants", lat, lng, 0>>

\* key: `restaurants-${lat}-${lng}-${radius}`
CacheKey(lat, lng, radius) == <<"restaurants", lat, lng, radius>>

CacheEntries(key) == {e \in cache : e.key = key}

\* cachified: an entry is served while Date.now() <= createdTime + ttl
IsFresh(e) == now <= e.createdTime + e.ttl

\* faulty variant: a group counts as one attendee
AttendeeCount_OnePerGroup(restaurantId, ids) ==
    IF restaurantId \in ids /\ GroupsOfRestaurant(restaurantId) # {}
    THEN 1
    ELSE 0

\* getAttendeeCounts: counts[group.restaurantId] = group._count.attendees
AttendeeCount(restaurantId, ids) ==
    IF restaurantId \in ids /\ GroupsOfRestaurant(restaurantId) # {}
    THEN Cardinality({a \in attendees :
             \E g \in GroupsOfRestaurant(restaurantId) : a.dinnerGroupId = g.id})
    ELSE 0

SeqIds(rows) == {rows[i].id : i \in 1..Len(rows)}

\* getUserAttendingRestaurant: prisma.attendee.findFirst({where: {userId}})
UserAttendance(u) ==
    IF AttendeesOfUser(u) = {} THEN {Null}
    ELSE {g.restaurantId : g \in {x \in dinnerGroups :
                                     \E a \in AttendeesOfUser(u) : a.dinnerGroupId = x.id}}

\* restaurants.map(...): the merged RestaurantWithDetails list
BuildDetails(rows, lat, lng, attending) ==
    [i \in 1..Len(rows) |->
        [id |-> rows[i].id, rating |-> rows[i].rating, priceLevel |-> rows[i].priceLevel,
         distance |-> CalculateDistance(lat, lng, rows[i]),
         attendeeCount |-> AttendeeCount(rows[i].id, SeqIds(rows)),
         isUserAttending |-> (attending # Null /\ attending = rows[i].id)]]

NoSvc ==
    [lat |-> 0, lng |-> 0, radius |-> 0, userId |-> Null, time |-> 0,
     outcome |-> "none", invoked |-> FALSE, details |-> << >>, logBefore |-> {}]

NoPage ==
    [outcome |-> "none", userId |-> Null,
     raw |-> [distance |-> NoParam, rating |-> NoParam, price |-> NoParam],
     filters |-> [distance |-> NoParam, rating |-> NoParam, price |-> NoParam],
     restaurantsWithAttendance |-> << >>, restaurantsNearby |-> << >>]

SvcInit ==
    /\ world \in Worlds
    /\ now = 0
    /\ cache = {}
    /\ provLog = {}
    /\ svc = NoSvc
    /\ page = NoPage
    /\ served = 0

\* getAllRestaurantDetails({lat, lng, userId, radius}); sets cache, provLog and svc
GetAllRestaurantDetails(lat, lng, u, radius) ==
    LET key == CacheKey(lat, lng, radius)
        fresh == {e \in CacheEntries(key) : IsFresh(e)}
        call == [NoSvc EXCEPT !.lat = lat, !.lng = lng, !.radius = radius,
                              !.userId = u, !.time = now, !.logBefore = provLog]
    IN
    \E attending \in UserAttendance(u) :
       IF fresh # {}
       THEN \E e \in fresh :
              /\ svc' = [call EXCEPT !.outcome = "returned",
                                     !.details = BuildDetails(e.value, lat, lng, attending)]
              /\ UNCHANGED <<cache, provLog>>
       ELSE \/ LET rows == FetchAndUpsertRestaurants(world, radius) IN
               /\ cache' = (cache \ CacheEntries(key)) \cup
                             {[key |-> key, createdTime |-> now,
                               ttl |-> RESTAURANT_CACHE_TTL, value |-> rows]}
               /\ provLog' = {l \in provLog :
                                 ~(l.lat = lat /\ l.lng = lng /\ l.radius = radius)}
                             \cup {[lat |-> lat, lng |-> lng, radius |-> radius,
                                    time |-> now, ids |-> SeqIds(rows),
                                    rows |-> Cardinality(attendees)]}
               /\ svc' = [call EXCEPT !.outcome = "returned", !.invoked = TRUE,
                                      !.details = BuildDetails(rows, lat, lng, attending)]
            \/ \* getNearbyRestaurants throws: nothing is cached
               /\ svc' = [call EXCEPT !.outcome = "threw", !.invoked = TRUE]
               /\ UNCHANGED <<cache, provLog>>

\* a request calls the service directly
ServiceRequest ==
    /\ served < MaxRequests
    /\ served' = served + 1
    /\ \E lat \in NearLats, radius \in Radii :
          GetAllRestaurantDetails(lat, HILTON_LNG, Requester, radius)
    /\ UNCHANGED <<world, now, page>>
    /\ UNCHANGED nonSvcVars

\* time passes
Tick ==
    /\ now < MaxTicks * TickMs
    /\ now' = now + TickMs
    /\ UNCHANGED <<world, cache, provLog, svc, page, served>>
    /\ UNCHANGED nonSvcVars

\* restaurants around the hotel open and close
WorldChanges ==
    /\ \E w \in ChangingWorlds : w # world /\ world' = w
    /\ UNCHANGED <<now, cache, provLog, svc, page, served>>
    /\ UNCHANGED nonSvcVars

\* ------------------------------------------------------ page loader
\* raw query parameters: absent, or a number (out-of-range ones included)
RawDistances == {NoParam, 0, 1, 2}
RawRatings == {NoParam, 4, 6}
RawPrices == {NoParam, 2}

\* z.coerce.number().min(lo).max(hi).optional()
ParamOk(raw, lo, hi) == raw = NoParam \/ (lo <= raw /\ raw <= hi)

\* FilterParamsSchema.safeParse(...).success
FilterParamsSuccess(raw) ==
    /\ ParamOk(raw.distance, 1, 10)
    /\ ParamOk(raw.rating, 1, 5)
    /\ ParamOk(raw.price, 1, 4)

\* filters: filterParams.success ? filterParams.data : {}
ActiveFilters(raw) ==
    IF FilterParamsSuccess(raw) THEN raw
    ELSE [distance |-> NoParam, rating |-> NoParam, price |-> NoParam]

\* radius = distance filter in metres, or one mile; the loader fetches twice that
LoaderRadius(raw) ==
    LET f == ActiveFilters(raw)
        radius == IF f.distance # NoParam THEN f.distance * 1600 ELSE 1600
    IN radius * 2

NearbyLimit == 30

\* r.attendeeCount > 0
HasAttendees(r) == r.attendeeCount > 0

\* the filter callback of restaurantsNearby
PassesNearbyFilter(r, f) ==
    /\ ~HasAttendees(r)
    /\ IF f.distance # NoParam THEN ~(r.distance > f.distance * 100)
                               ELSE ~(r.distance > 100)
    /\ f.rating # NoParam => ~(r.rating = 0 \/ r.rating < f.rating * 10)
    /\ f.price # NoParam => ~(r.priceLevel # f.price)

\* (a, b) => b.attendeeCount - a.attendeeCount
CompareAttendance(a, b) == b.attendeeCount - a.attendeeCount

\* faulty variant: no distance tiebreak
CompareNearby_NoTieBreak(a, b) == b.rating - a.rating

\* (a, b) => ratingDiff !== 0 ? ratingDiff : a.distance - b.distance
CompareNearby(a, b) ==
    LET ratingDiff == b.rating - a.rating IN
    IF ratingDiff # 0 THEN ratingDiff ELSE a.distance - b.distance

\* Array.prototype.sort is stable: an element goes behind every element that
\* does not compare greater
RECURSIVE InsertByAttendance(_, _)
InsertByAttendance(sorted, x) ==
    IF Len(sorted) = 0 THEN <<x>>
    ELSE IF CompareAttendance(sorted[Len(sorted)], x) > 0
         THEN Append(InsertByAttendance(SubSeq(sorted, 1, Len(sorted) - 1), x),
                     sorted[Len(sorted)])
         ELSE Append(sorted, x)

RECURSIVE SortByAttendance(_, _)
SortByAttendance(rows, n) ==
    IF n = 0 THEN << >>
    ELSE InsertByAttendance(SortByAttendance(rows, n - 1), rows[n])

RECURSIVE InsertNearby(_, _)
InsertNearby(sorted, x) ==
    IF Len(sorted) = 0 THEN <<x>>
    ELSE IF CompareNearby(sorted[Len(sorted)], x) > 0
         THEN Append(InsertNearby(SubSeq(sorted, 1, Len(sorted) - 1), x),
                     sorted[Len(sorted)])
         ELSE Append(sorted, x)

RECURSIVE SortNearby(_, _)
SortNearby(rows, n) ==
    IF n = 0 THEN << >>
    ELSE InsertNearby(SortNearby(rows, n - 1), rows[n])

\* faulty variant: slice(0, 31)
SliceTopResults_OneMore(rows) ==
    SubSeq(rows, 1, IF Len(rows) < NearbyLimit + 1 THEN Len(rows) ELSE NearbyLimit + 1)

\* .slice(0, 30)
SliceTopResults(rows) ==
    SubSeq(rows, 1, IF Len(rows) < NearbyLimit THEN Len(rows) ELSE NearbyLimit)

\* restaurants.filter(r => r.attendeeCount > 0).sort(...)
RestaurantsWithAttendance(restaurants) ==
    LET kept == SelectSeq(restaurants, HasAttendees)
    IN SortByAttendance(kept, Len(kept))

\* restaurants.filter(...).sort(...).slice(0, 30)
RestaurantsNearby(restaurants, f) ==
    LET Keep(r) == PassesNearbyFilter(r, f)
        kept == SelectSeq(restaurants, Keep)
    IN SliceTopResults(SortNearby(kept, Len(kept)))

\* loader({request}): parses the filters, fetches through the cache, splits,
\* filters and sorts
Loader ==
    /\ page.outcome = "none"
    /\ \E u \in {Requester}, d \in RawDistances, rt \in RawRatings, pr \in RawPrices :
          LET raw == [distance |-> d, rating |-> rt, price |-> pr] IN
          /\ GetAllRestaurantDetails(HILTON_LAT, HILTON_LNG, u, LoaderRadius(raw))
          /\ page' =
                IF svc'.outcome = "threw"
                THEN [NoPage EXCEPT !.outcome = "threw", !.userId = u, !.raw = raw]
                ELSE [outcome |-> "returned", userId |-> u, raw |-> raw,
                      filters |-> ActiveFilters(raw),
                      restaurantsWithAttendance |-> RestaurantsWithAttendance(svc'.details),
                      restaurantsNearby |->
                          RestaurantsNearby(svc'.details, ActiveFilters(raw))]
    /\ UNCHANGED <<world, now, served>>
    /\ UNCHANGED nonSvcVars

Init == DbInit /\ ProviderInit /\ SvcInit /\ world = [seed |-> 1, size |-> 0]

\* requests are served one after the other
Next ==
    \/ StartCall(1, TRUE)
    \/ LeaveDeleteAttendee(1)
    \/ LeaveCountRemaining(1)
    \/ LeaveDeleteGroup(1)
    \/ JoinFindGroup(1)
    \/ JoinCreateGroup(1)
    \/ JoinCreateAttendee(1)
    \/ FinishCall(1)

Spec == Init /\ [][Next]_vars

\* the tables when no call is running: every user is in no group or in one
Memberships == [Users -> JoinTargets \cup {Null}]
GroupsOf(m) ==
    {[id |-> r * IdStride + 1, restaurantId |-> r] :
        r \in {m[u] : u \in Users} \ {Null}}
AttendeesOf(m) ==
    {[id |-> u * IdStride + 1, userId |-> u, dinnerGroupId |-> m[u] * IdStride + 1] :
        u \in {x \in Users : m[x] # Null}}

\* a restaurant between two and four miles from the hotel (CatalogRow), which
\* the page offers to join under a distance filter of 5 or 10 miles
FarRestaurant == 9
LoaderMemberships == [Users -> JoinTargets \cup {FarRestaurant, Null}]

\* no call is running and the tables are as some earlier calls left them
DbAtRestIn(memberships) ==
    /\ \E m \in memberships : dinnerGroups = GroupsOf(m) /\ attendees = AttendeesOf(m)
    /\ onDelete \in {"Restrict", "Cascade"}
    /\ calls = [s \in Slots |-> IdleCall]
    /\ lastCall = [op |-> "none", userId |-> Null, value |-> Null,
                   groups |-> {}, attendees |-> {}]
    /\ started = 0

DbAtRest == DbAtRestIn(Memberships)

\* requests overlap: their database steps interleave
NextConc ==
    \E s \in Slots :
        \/ StartCall(s, FALSE)
        \/ LeaveDeleteAttendee(s)
        \/ LeaveCountRemaining(s)
        \/ LeaveDeleteGroup(s)
        \/ JoinFindGroup(s)
        \/ JoinCreateGroup(s)
        \/ JoinCreateAttendee(s)

SpecConc == Init /\ [][NextConc]_vars

InitWatched ==
    /\ DbAtRest
    /\ ProviderInit
    /\ SvcInit /\ world = [seed |-> 1, size |-> 0]

\* one join request of the signed-in user is followed from its start to its
\* response (slot 1); one other request overlaps it (slot 2)
NextWatched ==
    \/ /\ lastCall.op = "none"
       /\ StartCall(1, TRUE)
       /\ calls'[1].op = "join" /\ calls'[1].userId = Requester
    \/ started = 0 /\ StartCall(2, FALSE)
    \/ \E s \in {1, 2} :
          \/ LeaveDeleteAttendee(s)
          \/ LeaveCountRemaining(s)
          \/ LeaveDeleteGroup(s)
          \/ JoinFindGroup(s)
          \/ JoinCreateGroup(s)
          \/ JoinCreateAttendee(s)
    \/ FinishCall(1)

SpecWatched == InitWatched /\ [][NextWatched]_vars

SpecProvider == Init /\ [][NextProvider]_vars

InitCache ==
    /\ DbInit /\ onDelete = "Restrict"
    /\ ProviderInit
    /\ SvcInit /\ world \in ChangingWorlds

NextCache ==
    \/ ServiceRequest
    \/ Tick
    \/ WorldChanges

SpecCache == InitCache /\ [][NextCache]_vars

InitLoader ==
    /\ DbAtRestIn(LoaderMemberships) /\ onDelete = "Restrict"
    /\ ProviderInit
    /\ SvcInit

\* the response has been sent; the request's values are gone
Respond ==
    /\ page.outcome # "none" \/ svc.outcome # "none"
    /\ page' = NoPage
    /\ svc' = NoSvc
    /\ UNCHANGED <<world, now, cache, provLog, served>>
    /\ UNCHANGED nonSvcVars

NextLoader ==
    \/ Loader
    \/ Respond

SpecLoader == InitLoader /\ [][NextLoader]_vars

\* the provider knows every restaurant that can be joined, and one more
InitLive ==
    /\ DbInit /\ onDelete = "Restrict"
    /\ ProviderInit
    /\ world = [seed |-> 1, size |-> NumJoinTargets + 1]
    /\ now = 0
    /\ cache = {}
    /\ provLog = {}
    /\ svc = NoSvc
    /\ page = NoPage
    /\ served = 0

\* the signed-in user's page asks for the restaurant details around the
\* hotel, no distance filter set
DetailsRequest ==
    /\ GetAllRestaurantDetails(HILTON_LAT, HILTON_LNG, Requester,
           LoaderRadius([distance |-> NoParam, rating |-> NoParam, price |-> NoParam]))
    /\ UNCHANGED <<world, now, page, served>>
    /\ UNCHANGED nonSvcVars

\* joins and leaves are served one after the other; a request for the
\* restaurant details comes in at any point between their database steps and
\* is answered before the next step
NextLive ==
    \/ svc.outcome = "none" /\ StartCall(1, TRUE)
    \/ svc.outcome = "none" /\ LeaveDeleteAttendee(1)
    \/ svc.outcome = "none" /\ LeaveCountRemaining(1)
    \/ svc.outcome = "none" /\ LeaveDeleteGroup(1)
    \/ svc.outcome = "none" /\ JoinFindGroup(1)
    \/ svc.outcome = "none" /\ JoinCreateGroup(1)
    \/ svc.outcome = "none" /\ JoinCreateAttendee(1)
    \/ svc.outcome = "none" /\ FinishCall(1)
    \/ svc.outcome = "none" /\ DetailsRequest
    \/ Respond

SpecLive == InitLive /\ [][NextLive]_vars

\* ================================================================ claims
RowsInRestaurant(u, r) ==
    {a \in AttendeesOfUser(u) : \E g \in GroupById(a.dinnerGroupId) : g.restaurantId = r}

JoinReturned(s) ==
    calls[s].pc = "done" /\ calls[s].op = "join" /\ calls[s].result = "ok"

LeaveReturned(s) ==
    calls[s].pc = "done" /\ calls[s].op = "leave"

\* C1: when joinDinnerGroup(u, r) has returned successfully, u has exactly one
\* Attendee row, it is in the DinnerGroup of r, and u has no row in any other group.
C1_JoinLeavesOneRowInTarget ==
    \A s \in Slots :
        JoinReturned(s) =>
            /\ Cardinality(AttendeesOfUser(calls[s].userId)) = 1
            /\ AttendeesOfUser(calls[s].userId)
                  = RowsInRestaurant(calls[s].userId, calls[s].restaurantId)

\* a join has returned for a user who was a member of another restaurant's group
C1_Witness ==
    \E s \in Slots :
        /\ JoinReturned(s)
        /\ \E a \in calls[s].startAttendees :
              /\ a.userId = calls[s].userId
              /\ \E g \in calls[s].startGroups :
                    g.id = a.dinnerGroupId /\ g.restaurantId # calls[s].restaurantId

\* C2: in every state, also between the database steps of a call, each user
\* has at most one Attendee row.
C2_AtMostOneRowPerUser ==
    \A u \in Users : Cardinality(AttendeesOfUser(u)) <= 1

\* a join of a user who was a member is past its leave part and about to insert
C2_Witness ==
    \E s \in Slots :
        /\ calls[s].op = "join" /\ calls[s].pc = "createAttendee"
        /\ \E a \in calls[s].startAttendees : a.userId = calls[s].userId
        /\ AttendeesOfUser(calls[s].userId) = {}

\* C3: in every state of overlapping calls there is at most one DinnerGroup
\* per restaurantId.
C3_OneGroupPerRestaurant ==
    \A r \in JoinTargets : Cardinality(GroupsOfRestaurant(r)) <= 1

\* two joins of different users both found no group for the same restaurant;
\* one has created it and the other is about to create
C3_Witness ==
    \E s, t \in Slots :
        /\ calls[s].userId # calls[t].userId
        /\ calls[s].op = "join" /\ calls[t].op = "join"
        /\ calls[s].restaurantId = calls[t].restaurantId
        /\ calls[s].pc = "createGroup"
        /\ calls[t].pc = "createAttendee"
        /\ \E g \in GroupsOfRestaurant(calls[s].restaurantId) : g.id = calls[t].dinnerGroup

NoCallRunning == \A s \in Slots : calls[s].pc \in {"idle", "done"}

GroupsNonEmptyAtRest ==
    NoCallRunning => \A g \in dinnerGroups : AttendeesOfGroup(g.id) # {}

GroupLifecycleStep ==
    /\ \A g \in dinnerGroups \ dinnerGroups' :
          /\ AttendeesOfGroup(g.id) = {}
          /\ \E s \in Slots : calls[s].pc = "deleteGroup" /\ calls[s].attGroupId = g.id
    /\ \A g \in dinnerGroups' \ dinnerGroups :
          /\ GroupsOfRestaurant(g.restaurantId) = {}
          /\ \E s \in Slots : /\ calls[s].op = "join" /\ calls[s].pc = "createGroup"
                               /\ calls[s].restaurantId = g.restaurantId

\* C4: whenever no call is running every DinnerGroup has at least one Attendee;
\* a group is only created by a join for a restaurant that has no group, and
\* only deleted by the leave step of the call that removed its last attendee.
C4_GroupExistsWhileAttended ==
    []GroupsNonEmptyAtRest /\ [][GroupLifecycleStep]_vars

\* a leave has returned that removed the only attendee of a group, and the
\* group is gone
C4_Witness ==
    \E s \in Slots :
        /\ LeaveReturned(s) /\ calls[s].result = "ok" /\ calls[s].value # Null
        /\ GroupsOfRestaurant(calls[s].value) = {}
        /\ \E g \in calls[s].startGroups :
              /\ g.restaurantId = calls[s].value
              /\ Cardinality({a \in calls[s].startAttendees : a.dinnerGroupId = g.id}) = 1

\* C5: a leaveDinnerGroup(u) for a user without attendance, in particular the
\* second of two consecutive leaveDinnerGroup(u), returns null without error
\* and leaves both tables as they were.
C5_LeaveIdempotent ==
    \A s \in Slots :
        LeaveReturned(s) =>
            /\ ({a \in calls[s].startAttendees : a.userId = calls[s].userId} = {}) =>
                  /\ calls[s].result = "ok" /\ calls[s].value = Null
                  /\ dinnerGroups = calls[s].startGroups
                  /\ attendees = calls[s].startAttendees
            /\ (lastCall.op = "leave" /\ lastCall.userId = calls[s].userId) =>
                  /\ calls[s].result = "ok" /\ calls[s].value = Null
                  /\ dinnerGroups = lastCall.groups
                  /\ attendees = lastCall.attendees

\* the second of two consecutive leaves of a user has returned, the first
\* having left a group
C5_Witness ==
    \E s \in Slots :
        /\ LeaveReturned(s)
        /\ lastCall.op = "leave" /\ lastCall.userId = calls[s].userId
        /\ lastCall.value # Null

\* C8: a ZERO_RESULTS nearby response makes getNearbyRestaurants return the
\* empty list without exception and without any details call; a status other
\* than OK and ZERO_RESULTS makes it throw and return no list.
C8_NearbyStatusOutcome ==
    /\ provider.status = "ZERO_RESULTS" =>
          /\ provider.outcome = "returned" /\ provider.list = << >>
          /\ provider.detailsIssued = 0
    /\ provider.status \notin {"none", "OK", "ZERO_RESULTS"} =>
          /\ provider.outcome = "threw" /\ provider.list = << >>
          /\ provider.detailsIssued = 0

\* a ZERO_RESULTS response has been handled
C8_Witness ==
    provider.status = "ZERO_RESULTS" /\ provider.pc = "settled"

\* C9: with an OK nearby response the call never fails because of details
\* calls, and what it returns is exactly the places whose details call
\* succeeded, whichever subset of the details calls failed.
C9_DetailsFailureDropsOnlyItsPlace ==
    (provider.status = "OK" /\ provider.pc = "settled") =>
        /\ provider.outcome = "returned"
        /\ (\A i \in 1..Len(provider.details) : provider.details[i] # "pending") =>
              provider.list = FilterBoolean(provider.results, provider.details)

\* successful provider fetches before the latest service call that are at most
\* the TTL old and were made for the same radius and a location that Same relates
\* to the call's location
RecentFetches(Same(_, _)) ==
    {l \in svc.logBefore :
        /\ Same(l.lat, svc.lat) /\ Same(l.lng, svc.lng) /\ l.radius = svc.radius
        /\ svc.time <= l.time + RESTAURANT_CACHE_TTL}

SameNumber(x, y) == x = y

\* rounding of a coordinate to four decimals
RoundCoord(x) == ((x + 5) \div 10) * 10
SameRounded(x, y) == RoundCoord(x) = RoundCoord(y)

\* C10 as stated: a call at most 24 hours after a fetch for the same radius and
\* a location that rounds to the same value does not invoke the provider and
\* returns that fetch's restaurant set.
C10_Original_RoundedKey ==
    svc.outcome # "none" =>
        (RecentFetches(SameRounded) # {} =>
            /\ ~svc.invoked
            /\ \E l \in RecentFetches(SameRounded) : SeqIds(svc.details) = l.ids)

\* C10 (amended): the cache key holds lat, lng and radius exactly as passed: a
\* call invokes the provider exactly when no fetch for the identical lat, lng
\* and radius succeeded within the last 24 hours, and otherwise returns the
\* restaurant set of that fetch.
C10_ExactKeyTtl ==
    svc.outcome # "none" =>
        /\ svc.invoked <=> RecentFetches(SameNumber) = {}
        /\ \A l \in RecentFetches(SameNumber) :
              svc.outcome = "returned" /\ SeqIds(svc.details) = l.ids

\* a later call was served from the cache although the provider would by now
\* answer with another restaurant set
C10_Witness ==
    /\ svc.outcome = "returned" /\ ~svc.invoked /\ svc.time > 0
    /\ SeqIds(FetchAndUpsertRestaurants(world, svc.radius)) # SeqIds(svc.details)

\* a call after the entry expired went to the provider again
C10_ExpiryWitness ==
    /\ svc.invoked
    /\ \E l \in svc.logBefore :
          /\ l.lat = svc.lat /\ l.lng = svc.lng /\ l.radius = svc.radius
          /\ svc.time > l.time + RESTAURANT_CACHE_TTL

PageReturned == page.outcome = "returned"

\* what the active filters demand of a nearby entry
MeetsFilters(r, f) ==
    /\ r.attendeeCount = 0
    /\ r.distance <= (IF f.distance # NoParam THEN f.distance * 100 ELSE 100)
    /\ f.rating # NoParam => r.rating >= f.rating * 10
    /\ f.price # NoParam => r.priceLevel = f.price

\* C6: restaurantsNearby has at most 30 entries, and each has attendeeCount 0,
\* a distance within the distance filter (within 1 mile when none is active),
\* a rating of at least the rating filter and the priceLevel of the price filter.
C6_NearbyCappedAndFiltered ==
    PageReturned =>
        /\ Len(page.restaurantsNearby) <= 30
        /\ \A i \in 1..Len(page.restaurantsNearby) :
              MeetsFilters(page.restaurantsNearby[i], page.filters)

\* more than 30 fetched restaurants meet an active distance filter and the
\* list holds 30 of them
C6_Witness ==
    /\ PageReturned
    /\ page.filters.distance = 2
    /\ Cardinality({i \in 1..Len(svc.details) : MeetsFilters(svc.details[i], page.filters)}) > 30
    /\ Len(page.restaurantsNearby) = 30

\* a ranks strictly before b in the nearby order
RanksBefore(a, b) ==
    a.rating > b.rating \/ (a.rating = b.rating /\ a.distance < b.distance)

SeqRange(rows) == {rows[i] : i \in 1..Len(rows)}

RowsOfRestaurant(r) ==
    {a \in attendees : \E g \in GroupById(a.dinnerGroupId) : g.restaurantId = r}

\* C11: every restaurant that getAllRestaurantDetails returns carries the
\* number of Attendee rows its DinnerGroup holds when the call is answered
\* (0 without a group), whether the list came from the provider or from the
\* cache; isUserAttending holds for exactly the restaurant of the requesting
\* user's row, so for at most one entry.
C11_AttendanceLive ==
    svc.outcome = "returned" =>
        /\ \A i \in 1..Len(svc.details) :
              /\ svc.details[i].attendeeCount
                    = Cardinality(RowsOfRestaurant(svc.details[i].id))
              /\ svc.details[i].isUserAttending
                    <=> RowsInRestaurant(svc.userId, svc.details[i].id) # {}
        /\ Cardinality({i \in 1..Len(svc.details) : svc.details[i].isUserAttending}) <= 1

\* the list came from the cache, was fetched when the Attendee table was
\* empty, and now shows a restaurant with two attendees, the requesting
\* user among them, next to an unattended one
C11_Witness ==
    /\ svc.outcome = "returned" /\ ~svc.invoked
    /\ \E l \in RecentFetches(SameNumber) : l.rows = 0
    /\ \E i, j \in 1..Len(svc.details) :
          /\ svc.details[i].attendeeCount = 2 /\ svc.details[i].isUserAttending
          /\ svc.details[j].attendeeCount = 0

\* the form of call c is malformed: no intent, an intent other than join and
\* leave, or a join without restaurantId
MalformedForm(c) ==
    \/ c.intent \notin {"join", "leave"}
    \/ c.intent = "join" /\ c.restaurantId = Null

\* C12: a request with a malformed form never runs a step of joinDinnerGroup
\* or leaveDinnerGroup: it is answered at once, without exception, with the
\* 'Invalid form data' payload, and both tables are as they were.
C12_MalformedFormRejected ==
    \A s \in Slots :
        (calls[s].op # "idle" /\ MalformedForm(calls[s])) =>
            /\ calls[s].pc = "done"
            /\ calls[s].result = "Invalid form data"
            /\ dinnerGroups = calls[s].startGroups
            /\ attendees = calls[s].startAttendees

\* a member of a group sent a join without restaurantId and is still a member
C12_Witness ==
    \E s \in Slots :
        /\ calls[s].pc = "done"
        /\ calls[s].intent = "join" /\ calls[s].restaurantId = Null
        /\ AttendeesOfUser(calls[s].userId) # {}

\* the join in slot s inserts its Attendee row in this step
JoinInserts(s) ==
    /\ calls[s].op = "join" /\ calls[s].pc = "createAttendee"
    /\ calls'[s] # calls[s]
    /\ attendees' # attendees

\* C13: the insert of a join is a step of its own that looks at no other row
\* of the user: it adds one row to whatever rows the user holds then, so the
\* second of two joins that both finished their leave part before either
\* inserted leaves the user with two Attendee rows.
C13_JoinInsertAddsRow ==
    [][\A s \in Slots :
          JoinInserts(s) =>
             /\ AttendeesOfUser(calls[s].userId) \subseteq attendees'
             /\ Cardinality({a \in attendees' : a.userId = calls[s].userId})
                   = Cardinality(AttendeesOfUser(calls[s].userId)) + 1]_vars

\* no request is running and a user holds two Attendee rows, in the groups of
\* two restaurants
C13_Witness ==
    /\ AllIdle
    /\ \E u \in Users : \E a, b \in AttendeesOfUser(u) :
          /\ a.id # b.id
          /\ \E g \in GroupById(a.dinnerGroupId), h \in GroupById(b.dinnerGroupId) :
                g.restaurantId # h.restaurantId

\* every Attendee row references an existing DinnerGroup
NoOrphanRows == \A a \in attendees : GroupById(a.dinnerGroupId) # {}

\* an Attendee row only goes away in the delete step of a leave of its own
\* user that found this row
RowsLeaveByOwnCall ==
    \A a \in attendees \ attendees' :
        \E s \in Slots : /\ calls[s].pc = "deleteAttendee"
                          /\ calls[s].attendee = a.id
                          /\ calls[s].userId = a.userId

\* C14: in every state of overlapping calls every Attendee row references an
\* existing DinnerGroup, and no step takes away the row a join inserted other
\* than a leave of that row's user.
C14_NoOrphanNoLostJoin ==
    []NoOrphanRows /\ [][RowsLeaveByOwnCall]_vars

\* C14, the part that holds whatever the referential action: no row without
\* group, and with a restricting relation no row is lost either.
C14_NoOrphanAndRestrictKeepsRows ==
    []NoOrphanRows /\ [][onDelete = "Restrict" => RowsLeaveByOwnCall]_vars

\* a leave that counted no remaining attendee is about to delete the group,
\* into which a join of another user has meanwhile inserted its row
C14_RaceWitness ==
    \E s \in Slots :
        /\ calls[s].pc = "deleteGroup"
        /\ \E a \in AttendeesOfGroup(calls[s].attGroupId) : a.userId # calls[s].userId

\* the join in slot s has thrown in its find-or-create or insert step
JoinThrew(s) ==
    /\ calls[s].pc = "done" /\ calls[s].op = "join" /\ calls[s].result = "error"
    /\ calls[s].threwAt \in {"findGroup", "createGroup", "createAttendee"}

\* C15: when a join has thrown, its user still holds the Attendee row held
\* when the join began, and the group of this row still exists.
C15_FailedJoinKeepsMembership ==
    \A s \in Slots :
        JoinThrew(s) =>
            \A a \in calls[s].startAttendees :
                a.userId = calls[s].userId =>
                    /\ a \in attendees
                    /\ GroupById(a.dinnerGroupId) # {}
                    /\ GroupById(a.dinnerGroupId) \subseteq calls[s].startGroups

\* a join of a member has thrown, every other request has ended, and the user
\* is in no group at all
C15_LostMembership ==
    /\ JoinThrew(1)
    /\ \A s \in Slots \ {1} : calls[s].op = "idle"
    /\ \E a \in calls[1].startAttendees : a.userId = calls[1].userId
    /\ AttendeesOfUser(calls[1].userId) = {}

\* entry r of a loader list is the restaurant of Attendee row a, marked as the
\* user's
ShowsAttendance(r, a) ==
    /\ r.isUserAttending
    /\ \E g \in GroupById(a.dinnerGroupId) : g.restaurantId = r.id

\* C16: when the loader has returned and the requesting user has an Attendee
\* row, restaurantsWithAttendance holds the restaurant of that row with
\* isUserAttending true, whatever the query filters were.
C16_AttendedRestaurantListed ==
    PageReturned =>
        \A a \in AttendeesOfUser(page.userId) :
            \E i \in 1..Len(page.restaurantsWithAttendance) :
                ShowsAttendance(page.restaurantsWithAttendance[i], a)

\* the provider knows the far restaurant the user attends, and the page,
\* loaded without distance filter, lists no restaurant as the user's
C16_MissedUnderDefaultRadius ==
    /\ PageReturned /\ page.raw.distance = NoParam
    /\ world.size = CatalogSize
    /\ RowsInRestaurant(page.userId, FarRestaurant) # {}
    /\ \A i \in 1..Len(page.restaurantsWithAttendance) :
          ~page.restaurantsWithAttendance[i].isUserAttending

\* in the same situation the page loaded with a distance filter of 2 miles
\* lists the far restaurant as the user's
C16_ListedUnderWiderRadius ==
    /\ PageReturned /\ page.filters.distance = 2
    /\ RowsInRestaurant(page.userId, FarRestaurant) # {}
    /\ \E i \in 1..Len(page.restaurantsWithAttendance) :
          /\ page.restaurantsWithAttendance[i].isUserAttending
          /\ page.restaurantsWithAttendance[i].id = FarRestaurant
====
